---- MODULE Spec2Model ----
(***************************************************************************)
(* A model of reverse-http-proxy (src/src/main.rs): the route table and    *)
(* its longest-prefix resolution, the incremental header reader, the path  *)
(* rewriter, and the per-connection handler that ties them together.       *)
(*                                                                         *)
(* Bytes and characters are one-character strings; a byte string or a Rust *)
(* String is a sequence of them.  "xFF" stands for the byte 0xFF, which is *)
(* never part of valid UTF-8, and "xEF", "xBF", "xBD" for the three bytes  *)
(* of U+FFFD, the replacement character.                                   *)
(***************************************************************************)
EXTENDS Integers, Sequences, FiniteSets, TLC

VARIABLES
    config,              \* Result<RouteConfig, String> of RouteConfig::new
    call,                \* arguments of the function under test (pure specs)
    ret,                 \* its return value, NoValue before the call
    pc,                  \* where main / the connection task stands
    stream_id,           \* which byte stream the client sends (ClientStreams)
    client_pos,          \* bytes of it the proxy has read from the socket
    short_reads,         \* reads so far that returned less than they could
    buffer,              \* parse_http_request: buffer
    total_read,          \* parse_http_request: total_read
    path,                \* main: path
    request_data,        \* main: request_data
    backend_addr,        \* main: backend_addr
    matched_prefix,      \* main: matched_prefix
    final_request_data,  \* main: final_request_data
    backend_stream,      \* address backend_stream is connected to, or NoValue
    backend_received,    \* bytes the backend socket has received
    client_received,     \* bytes the client socket has received
    write_result,        \* result of the task's last write_all
    log,                 \* the task's eprintln! lines
    tasks                \* the spawned connection tasks, in order of accept,
                         \* where several run side by side (SpecTasks)

vars == <<config, call, ret, pc, stream_id, client_pos, short_reads, buffer,
          total_read, path, request_data, backend_addr, matched_prefix,
          final_request_data, backend_stream, backend_received,
          client_received, write_result, log, tasks>>

handlerVars == <<pc, stream_id, client_pos, short_reads, buffer, total_read,
                 path, request_data, backend_addr, matched_prefix,
                 final_request_data, backend_stream, backend_received,
                 client_received, write_result, log>>

\* The connection task's variables other than pc.
taskVars == <<stream_id, client_pos, short_reads, buffer, total_read, path,
              request_data, backend_addr, matched_prefix, final_request_data,
              backend_stream, backend_received, client_received,
              write_result, log>>

NoValue == "NoValue"

----------------------------------------------------------------------------
(* Sequence helpers.                                                       *)

Min(S) == CHOOSE x \in S : \A y \in S : x <= y

MinNat(a, b) == IF a <= b THEN a ELSE b

\* str::starts_with / slice::starts_with
StartsWith(s, p) == Len(p) <= Len(s) /\ SubSeq(s, 1, Len(p)) = p

\* &s[k..]
DropFirst(s, k) == SubSeq(s, k + 1, Len(s))

\* All sequences over S of length at most k.
SeqsUpTo(S, k) == UNION {[1..m -> S] : m \in 0..k}

\* All orders in which the elements of the finite set S can be enumerated.
Orders(S) == {o \in [1..Cardinality(S) -> S] : \A k \in S : \E i \in DOMAIN o : o[i] = k}

----------------------------------------------------------------------------
(* RouteConfig (main.rs 28-85).                                            *)

\* str::split('='): the pieces between separators, always at least one.
RECURSIVE SplitOn(_, _, _)
SplitOn(s, sep, cur) ==
    IF s = <<>> THEN <<cur>>
    ELSE IF Head(s) = sep THEN <<cur>> \o SplitOn(Tail(s), sep, <<>>)
    ELSE SplitOn(Tail(s), sep, Append(cur, Head(s)))

split(s, sep) == SplitOn(s, sep, <<>>)

\* HashMap::insert: the key's former value, if any, is replaced.
HashMapInsert(routes, k, v) ==
    [x \in DOMAIN routes \cup {k} |-> IF x = k THEN v ELSE routes[x]]

EmptyHashMap == [x \in {} |-> <<>>]

\* Faulty variant of NewLoop: the check that the path starts with '/' is
\* missing.
RECURSIVE MutNewLoopNoSlashCheck(_, _)
MutNewLoopNoSlashCheck(route_args, routes) ==
    IF route_args = <<>> THEN [ok |-> TRUE, routes |-> routes]
    ELSE LET route == Head(route_args)
             parts == split(route, "=")
         IN  IF Len(parts) # 2 THEN [ok |-> FALSE, err |-> "Invalid route format"]
             ELSE MutNewLoopNoSlashCheck(Tail(route_args),
                                         HashMapInsert(routes, parts[1], parts[2]))

\* The for loop of RouteConfig::new, lines 38-52: the first bad argument
\* returns Err, otherwise the argument is inserted and the loop goes on.
RECURSIVE NewLoop(_, _)
NewLoop(route_args, routes) ==
    IF route_args = <<>> THEN [ok |-> TRUE, routes |-> routes]
    ELSE LET route == Head(route_args)
             parts == split(route, "=")
         IN  IF Len(parts) # 2 THEN [ok |-> FALSE, err |-> "Invalid route format"]
             ELSE IF ~StartsWith(parts[1], <<"/">>)
                  THEN [ok |-> FALSE, err |-> "Path must start with '/'"]
             ELSE NewLoop(Tail(route_args), HashMapInsert(routes, parts[1], parts[2]))

RouteConfigNew(default_backend, route_args, rewrite_paths) ==
    LET r == NewLoop(route_args, EmptyHashMap)
    IN  IF r.ok
        THEN [ok |-> TRUE, default_backend |-> default_backend,
              routes |-> r.routes, rewrite_paths |-> rewrite_paths]
        ELSE r

\* Faulty variant of PrefixLoop: the length comparison is missing, so the
\* last matching key in iteration order wins.
RECURSIVE MutPrefixLoopNoLength(_, _, _, _, _)
MutPrefixLoopNoLength(routes, ord, p, best_backend, best_match) ==
    IF ord = <<>> THEN <<best_backend, best_match>>
    ELSE LET route_path == Head(ord)
         IN  IF StartsWith(p, route_path)
             THEN MutPrefixLoopNoLength(routes, Tail(ord), p, routes[route_path], route_path)
             ELSE MutPrefixLoopNoLength(routes, Tail(ord), p, best_backend, best_match)

\* Faulty variant of PrefixLoop: the loop stops at the first key that
\* prefixes the path.
RECURSIVE MutPrefixLoopFirstMatch(_, _, _, _, _)
MutPrefixLoopFirstMatch(routes, ord, p, best_backend, best_match) ==
    IF ord = <<>> THEN <<best_backend, best_match>>
    ELSE LET route_path == Head(ord)
         IN  IF StartsWith(p, route_path)
             THEN <<routes[route_path], route_path>>
             ELSE MutPrefixLoopFirstMatch(routes, Tail(ord), p, best_backend, best_match)

\* The prefix-matching loop, lines 73-83, over the keys in the order `ord`
\* (HashMap iteration order is unspecified).
RECURSIVE PrefixLoop(_, _, _, _, _)
PrefixLoop(routes, ord, p, best_backend, best_match) ==
    IF ord = <<>> THEN <<best_backend, best_match>>
    ELSE LET route_path == Head(ord)
         IN  IF StartsWith(p, route_path) /\ Len(route_path) > Len(best_match)
             THEN PrefixLoop(routes, Tail(ord), p, routes[route_path], route_path)
             ELSE PrefixLoop(routes, Tail(ord), p, best_backend, best_match)

\* The exact-match loop, lines 65-69: None when no key equals the path.
RECURSIVE ExactLoop(_, _, _)
ExactLoop(ord, p, backend) ==
    IF ord = <<>> THEN NoValue
    ELSE IF Head(ord) = p THEN <<backend, Head(ord)>>
    ELSE ExactLoop(Tail(ord), p, backend)

\* Faulty variant of get_backend_and_prefix: only exact matches, no prefix
\* matching.
MutExactOnly(cfg, p, ord) ==
    IF p \in DOMAIN cfg.routes THEN <<cfg.routes[p], p>>
    ELSE <<cfg.default_backend, <<>>>>

\* Faulty variant of get_backend_and_prefix: the shortest matching key wins.
MutShortestWins(cfg, p, ord) ==
    LET S == {k \in DOMAIN cfg.routes : StartsWith(p, k)}
    IN  IF S = {} THEN <<cfg.default_backend, <<>>>>
        ELSE LET k == CHOOSE x \in S : \A y \in S : Len(x) <= Len(y)
             IN  <<cfg.routes[k], k>>

\* RouteConfig::get_backend_and_prefix, the map iterated in the order `ord`.
get_backend_and_prefix(cfg, p, ord) ==
    LET exact == IF p \in DOMAIN cfg.routes
                 THEN ExactLoop(ord, p, cfg.routes[p])
                 ELSE NoValue
    IN  IF exact # NoValue THEN exact
        ELSE PrefixLoop(cfg.routes, ord, p, cfg.default_backend, <<>>)

----------------------------------------------------------------------------
(* rewrite_request_path (main.rs 148-201).                                 *)

\* char::is_whitespace, on the characters of this model.
Whitespace == {" ", "\t", "\r", "\n"}

\* String::from_utf8_lossy: valid bytes decode to themselves, an invalid
\* byte decodes to U+FFFD (one char).
from_utf8_lossy(bytes) ==
    [i \in 1..Len(bytes) |-> IF bytes[i] = "xFF" THEN "U+FFFD" ELSE bytes[i]]

\* str::as_bytes: the UTF-8 encoding, three bytes for U+FFFD.
RECURSIVE as_bytes(_)
as_bytes(str) ==
    IF str = <<>> THEN <<>>
    ELSE (IF Head(str) = "U+FFFD" THEN <<"xEF", "xBF", "xBD">> ELSE <<Head(str)>>)
         \o as_bytes(Tail(str))

\* Index of the first element of s that is in S, 0 when there is none.
FirstIn(s, S) ==
    LET J == {j \in 1..Len(s) : s[j] \in S}
    IN  IF J = {} THEN 0 ELSE Min(J)

\* str::lines(): the lines of a non-empty string, split at "\n", each
\* without its "\n" and without a "\r" right before it.  Only the first line
\* is used (line 165); HasLines is !lines.is_empty().
HasLines(str) == str # <<>>

FirstLine(str) ==
    LET nl == FirstIn(str, {"\n"})
    IN  IF nl = 0 THEN str
        ELSE IF nl > 1 /\ str[nl - 1] = "\r" THEN SubSeq(str, 1, nl - 2)
        ELSE SubSeq(str, 1, nl - 1)

\* The spans <<from, to>> of the maximal runs of non-whitespace in s,
\* scanning from index i; `from` is the start of the run in progress or 0.
RECURSIVE TokenSpans(_, _, _)
TokenSpans(s, i, from) ==
    IF i > Len(s)
    THEN IF from = 0 THEN <<>> ELSE << <<from, Len(s)>> >>
    ELSE IF s[i] \in Whitespace
         THEN (IF from = 0 THEN <<>> ELSE << <<from, i - 1>> >>)
              \o TokenSpans(s, i + 1, 0)
         ELSE TokenSpans(s, i + 1, IF from = 0 THEN i ELSE from)

\* str::split_whitespace().collect()
split_whitespace(s) ==
    LET spans == TokenSpans(s, 1, 0)
    IN  [k \in 1..Len(spans) |-> SubSeq(s, spans[k][1], spans[k][2])]

\* Faulty variant of StripPrefix: the leading "/" is not restored.
MutStripOnly(p, prefix_to_strip) ==
    IF StartsWith(p, prefix_to_strip)
    THEN DropFirst(p, Len(prefix_to_strip))
    ELSE p

\* Lines 177-187: the new path.
StripPrefix(p, prefix_to_strip) ==
    IF StartsWith(p, prefix_to_strip)
    THEN LET stripped == DropFirst(p, Len(prefix_to_strip))
         IN  IF stripped = <<>> \/ ~StartsWith(stripped, <<"/">>)
             THEN <<"/">> \o stripped
             ELSE stripped
    ELSE p

\* rewrite_request_path(request_data, _original_path, prefix_to_strip)
rewrite_request_path(data, original_path, prefix_to_strip) ==
    IF prefix_to_strip = <<>> THEN data
    ELSE
    LET request_str == from_utf8_lossy(data)
    IN  IF ~HasLines(request_str) THEN data
        ELSE
        LET first_line == FirstLine(request_str)
            parts == split_whitespace(first_line)
        IN  IF Len(parts) # 3 THEN data
            ELSE
            LET method == parts[1]
                version == parts[3]
                new_path == StripPrefix(parts[2], prefix_to_strip)
                new_first_line == method \o <<" ">> \o new_path \o <<" ">> \o version
                first_line_end == FirstIn(data, {"\r", "\n"})
            IN  IF first_line_end # 0
                THEN as_bytes(new_first_line) \o DropFirst(data, first_line_end - 1)
                ELSE data

----------------------------------------------------------------------------
(* httparse::Request::parse, as parse_http_request uses it (main.rs        *)
(* 106-109): default configuration, at most 64 headers.  The result is the *)
(* status and, when Complete, the path of the request line.                *)

HttpVersion == <<"H", "T", "T", "P", "/", "1", ".", "1">>

\* Bytes that are not token characters (tchar) among this model's bytes.
NonTokenBytes == {" ", "\t", "\r", "\n", "/", ":", "=", "?", "x00", "xFF"}

\* Bytes that cannot be part of the request target.
NonUriBytes == {" ", "\t", "\r", "\n", "x00", "xFF"}

\* Bytes that cannot be part of a header value.
NonValueBytes == {"\r", "\n", "x00"}

MaxHeaders == 64

\* Index of the first element of s at or after i that is in S; Len(s) + 1
\* when there is none.
FirstInFrom(s, i, S) ==
    LET J == {j \in i..Len(s) : s[j] \in S}
    IN  IF J = {} THEN Len(s) + 1 ELSE Min(J)

Partial == [status |-> "Partial"]
ParseError == [status |-> "Error"]

\* skip_empty_lines: the index of the first byte after the leading empty
\* lines, 0 when the input ends first (Partial), -1 on a "\r" without "\n".
RECURSIVE skip_empty_lines(_, _)
skip_empty_lines(b, i) ==
    IF i > Len(b) THEN 0
    ELSE IF b[i] = "\r"
         THEN IF i + 1 > Len(b) THEN 0
              ELSE IF b[i + 1] = "\n" THEN skip_empty_lines(b, i + 2)
              ELSE -1
    ELSE IF b[i] = "\n" THEN skip_empty_lines(b, i + 1)
    ELSE i

\* newline!: the index after "\r\n" or "\n" at i; 0 Partial, -1 error.
newline(b, i) ==
    IF i > Len(b) THEN 0
    ELSE IF b[i] = "\n" THEN i + 1
    ELSE IF b[i] = "\r"
         THEN IF i + 1 > Len(b) THEN 0
              ELSE IF b[i + 1] = "\n" THEN i + 2 ELSE -1
    ELSE -1

\* parse_version: "HTTP/1.0" or "HTTP/1.1" at i, compared byte by byte;
\* the index after it, 0 Partial, -1 error.
parse_version(b, i) ==
    LET bad == {k \in 1..8 : i + k - 1 <= Len(b) /\
                    IF k = 8 THEN b[i + k - 1] \notin {"0", "1"}
                    ELSE b[i + k - 1] # HttpVersion[k]}
        short == {k \in 1..8 : i + k - 1 > Len(b)}
    IN  IF bad # {} /\ (short = {} \/ Min(bad) < Min(short)) THEN -1
        ELSE IF short # {} THEN 0
        ELSE i + 8

\* parse_headers_iter: header lines from i up to the empty line.
RECURSIVE parse_headers(_, _, _)
parse_headers(b, i, count) ==
    IF i > Len(b) THEN "Partial"
    ELSE IF b[i] \in {"\r", "\n"}
         THEN (IF newline(b, i) > 0 THEN "Complete"
               ELSE IF newline(b, i) = 0 THEN "Partial" ELSE "Error")
    ELSE IF count >= MaxHeaders THEN "Error"
    ELSE LET colon == FirstInFrom(b, i, NonTokenBytes)
         IN  IF colon > Len(b) THEN "Partial"
             ELSE IF colon = i \/ b[colon] # ":" THEN "Error"
             ELSE LET vend == FirstInFrom(b, colon + 1, NonValueBytes)
                  IN  IF vend > Len(b) THEN "Partial"
                      ELSE IF newline(b, vend) = 0 THEN "Partial"
                      ELSE IF newline(b, vend) < 0 THEN "Error"
                      ELSE parse_headers(b, newline(b, vend), count + 1)

\* Request::parse: skip_empty_lines, method, SP, target, SP, version,
\* newline, headers.
httparse_parse(b) ==
    LET m == skip_empty_lines(b, 1)
    IN  IF m = 0 THEN Partial
        ELSE IF m < 0 THEN ParseError
        ELSE
        LET mend == FirstInFrom(b, m, NonTokenBytes)
        IN  IF mend > Len(b) THEN Partial
            ELSE IF mend = m \/ b[mend] # " " THEN ParseError
            ELSE
            LET u == mend + 1
                uend == FirstInFrom(b, u, NonUriBytes)
            IN  IF uend > Len(b) THEN Partial
                ELSE IF uend = u \/ b[uend] # " " THEN ParseError
                ELSE
                LET v == parse_version(b, uend + 1)
                    nl == IF v > 0 THEN newline(b, v) ELSE v
                    h == IF nl > 0 THEN parse_headers(b, nl, 0) ELSE "none"
                IN  IF nl = 0 THEN Partial
                    ELSE IF nl < 0 THEN ParseError
                    ELSE IF h = "Partial" THEN Partial
                    ELSE IF h = "Error" THEN ParseError
                    ELSE [status |-> "Complete", path |-> SubSeq(b, u, uend - 1)]

----------------------------------------------------------------------------
(* parse_http_request and find_header_end (main.rs 87-146).                *)

InitialBufferLen == 8192

\* A Vec<u8> whose tail is zero: `data` holds the bytes up to the last one
\* written, the remaining len - Len(data) bytes are 0.
NewBuffer == [data |-> <<>>, len |-> InitialBufferLen]

Zeros(k) == [i \in 1..k |-> "x00"]

\* &buffer[..k]
BufferPrefix(buf, k) ==
    IF k <= Len(buf.data) THEN SubSeq(buf.data, 1, k)
    ELSE buf.data \o Zeros(k - Len(buf.data))

\* Faulty variant of BufferWrite: the read stores at the start of the
\* buffer (&mut buffer[..]) instead of at total_read.
MutBufferWriteAtStart(buf, off, bytes) ==
    [buf EXCEPT !.data = bytes \o SubSeq(buf.data, Len(bytes) + 1, Len(buf.data))]

\* stream.read(&mut buffer[off..]) storing the bytes it returns: they
\* replace the bytes at off .. off + bytes.len().
BufferWrite(buf, off, bytes) ==
    [buf EXCEPT !.data =
        IF off <= Len(buf.data)
        THEN SubSeq(buf.data, 1, off) \o bytes
             \o SubSeq(buf.data, off + Len(bytes) + 1, Len(buf.data))
        ELSE buf.data \o Zeros(off - Len(buf.data)) \o bytes]

\* buffer.resize(buffer.len() * 2, 0)
BufferDouble(buf) == [buf EXCEPT !.len = buf.len * 2]

\* Faulty variant of GrowIfFull: a full buffer is not resized.
MutNeverGrow(buf, total) == buf

\* if total_read >= buffer.len() { buffer.resize(...) }   (119-122, 132-134)
GrowIfFull(buf, total) == IF total >= buf.len THEN BufferDouble(buf) ELSE buf

\* Faulty variant of find_header_end: the range stops one short
\* (saturating_sub(4)), missing a terminator at the very end of the data.
MutFindHeaderEndOffByOne(data) ==
    LET J == {i \in 1..(Len(data) - 4) :
                 /\ data[i] = "\r" /\ data[i + 1] = "\n"
                 /\ data[i + 2] = "\r" /\ data[i + 3] = "\n"}
    IN  IF J = {} THEN 0 ELSE Min(J) + 3

\* find_header_end: Some(i + 4) for the first i with data[i..i+4] = CRLFCRLF
\* (0-based), which is the 1-based index of its last byte; 0 for None.
find_header_end(data) ==
    LET J == {i \in 1..(Len(data) - 3) :
                 /\ data[i] = "\r" /\ data[i + 1] = "\n"
                 /\ data[i + 2] = "\r" /\ data[i + 3] = "\n"}
    IN  IF J = {} THEN 0 ELSE Min(J) + 3

\* Faulty variant of AfterRead: the parser is handed everything read so far
\* (&buffer[..total_read]) instead of the bytes up to the first terminator.
MutAfterReadWholeBuffer(buf, total) ==
    LET pos == find_header_end(BufferPrefix(buf, total))
        req == IF pos # 0 THEN httparse_parse(BufferPrefix(buf, total)) ELSE Partial
    IN  IF pos # 0 /\ req.status = "Complete"
        THEN [kind |-> "ok", path |-> req.path,
              request_data |-> BufferPrefix(buf, total)]
        ELSE IF pos # 0 /\ req.status = "Error"
        THEN [kind |-> "err"]
        ELSE [kind |-> "continue", buffer |-> GrowIfFull(buf, total)]

\* Faulty variant of AfterRead: a structural parse error is treated like a
\* request without a path ("/") instead of failing.
MutAfterReadErrorAsRoot(buf, total) ==
    LET pos == find_header_end(BufferPrefix(buf, total))
        req == IF pos # 0 THEN httparse_parse(BufferPrefix(buf, pos)) ELSE Partial
    IN  IF pos # 0 /\ req.status = "Complete"
        THEN [kind |-> "ok", path |-> req.path,
              request_data |-> BufferPrefix(buf, total)]
        ELSE IF pos # 0 /\ req.status = "Error"
        THEN [kind |-> "ok", path |-> <<"/">>,
              request_data |-> BufferPrefix(buf, total)]
        ELSE [kind |-> "continue", buffer |-> GrowIfFull(buf, total)]

\* One iteration of the loop of parse_http_request after a read of n > 0
\* bytes (lines 100-134), on the buffer and total_read after the read:
\* "ok" returns (path, request_data), "err" returns the parse error,
\* "continue" goes back to the read with the buffer possibly doubled.
AfterRead(buf, total) ==
    LET pos == find_header_end(BufferPrefix(buf, total))
        req == IF pos # 0 THEN httparse_parse(BufferPrefix(buf, pos)) ELSE Partial
    IN  IF pos # 0 /\ req.status = "Complete"
        THEN [kind |-> "ok", path |-> req.path,
              request_data |-> BufferPrefix(buf, total)]
        ELSE IF pos # 0 /\ req.status = "Error"
        THEN [kind |-> "err"]
        ELSE [kind |-> "continue", buffer |-> GrowIfFull(buf, total)]

----------------------------------------------------------------------------
(* Inputs of the route-table specification.                                *)

MaxRouteArgs == 3

DefaultBackend == <<"Z">>

\* -r arguments: well-formed ones (with a repeated key, nested prefixes and
\* a key that extends another without a '/'), and the malformed shapes.
RouteArgs ==
    { <<"/", "a", "=", "A">>,
      <<"/", "a", "/", "b", "=", "B">>,
      <<"/", "=", "C">>,
      <<"/", "a", "b", "=", "D">>,
      <<"/", "a", "=", "E">>,
      <<"a", "=", "A">>,
      <<"/", "a", "=", "A", "=", "B">>,
      <<"/", "b">> }

ResolvePaths ==
    { <<"/">>, <<"/", "a">>, <<"/", "a", "/", "b">>,
      <<"/", "a", "/", "b", "/", "c">>, <<"/", "a", "b">>,
      <<"/", "a", "b", "c">>, <<"/", "c">>, <<"*">> }

IdleHandler ==
    /\ stream_id = 0
    /\ client_pos = 0
    /\ short_reads = 0
    /\ buffer = NoValue
    /\ total_read = 0
    /\ path = NoValue
    /\ request_data = NoValue
    /\ backend_addr = NoValue
    /\ matched_prefix = NoValue
    /\ final_request_data = NoValue
    /\ backend_stream = NoValue
    /\ backend_received = <<>>
    /\ client_received = <<>>
    /\ write_result = NoValue
    /\ log = <<>>
    /\ tasks = <<>>

\* main, lines 208-224: the configuration is valid and the listener bound.
Startup ==
    /\ pc = "main"
    /\ config.ok
    /\ pc' = "accept"
    /\ UNCHANGED <<tasks, config, call, ret, taskVars>>

\* main, line 208: RouteConfig::new(...)? returns the error from main.
StartupFails ==
    /\ pc = "main"
    /\ ~config.ok
    /\ pc' = "exited"
    /\ UNCHANGED <<tasks, config, call, ret, taskVars>>

ResolveInit ==
    /\ \E route_args \in SeqsUpTo(RouteArgs, MaxRouteArgs), p \in ResolvePaths :
          /\ config = RouteConfigNew(DefaultBackend, route_args, FALSE)
          /\ call = [route_args |-> route_args, path |-> p]
    /\ ret = NoValue
    /\ pc = "main"
    /\ IdleHandler

\* One call of get_backend_and_prefix on the constructed table.
ResolveCall ==
    /\ config.ok
    /\ ret = NoValue
    /\ \E ord \in Orders(DOMAIN config.routes) :
          ret' = get_backend_and_prefix(config, call.path, ord)
    /\ UNCHANGED <<tasks, config, call, handlerVars>>

ResolveNext == StartupFails \/ Startup \/ ResolveCall

SpecResolve == ResolveInit /\ [][ResolveNext]_vars

----------------------------------------------------------------------------
(* The connection task (main.rs 226-294) and its environment.              *)

\* Bounds of the environment: a read may return any number of bytes up to
\* MaxShortRead short of what it could return, at most MaxShortReads times
\* per phase; a failing write_all delivers at most MaxPartialWrite bytes.
MaxShortRead == 3
MaxShortReads == 12
MaxPartialWrite == 2

CRLF == <<"\r", "\n">>

RequestLine(target) == <<"G", "E", "T", " ">> \o target \o <<" ">> \o HttpVersion

ApiUsers == <<"/", "a", "p", "i", "/", "u", "s", "e", "r", "s">>
Api == <<"/", "a", "p", "i">>

\* A run of InitialBufferLen bytes: with it a header section outgrows the
\* initial buffer.
Filler == [i \in 1..InitialBufferLen |-> "a"]

\* The byte streams a client may send before it closes its sending side.
ClientStreams ==
    << \* 1: /api/users
       RequestLine(ApiUsers) \o CRLF \o CRLF,
       \* 2: /unknown, then body bytes
       RequestLine(<<"/", "u", "n", "k", "n", "o", "w", "n">>) \o CRLF \o CRLF
           \o <<"h", "i">>,
       \* 3: a header, then a second request for another route
       RequestLine(Api) \o CRLF \o <<"H", ":", " ", "v">> \o CRLF \o CRLF
           \o RequestLine(<<"/", "x">>) \o CRLF \o CRLF,
       \* 4: an empty line before the request line
       CRLF \o RequestLine(ApiUsers) \o CRLF \o CRLF,
       \* 5: /apiv2
       RequestLine(<<"/", "a", "p", "i", "v", "2">>) \o CRLF \o CRLF,
       \* 6: closed before the end of the headers
       RequestLine(Api) \o CRLF \o <<"H", ":", " ", "v">> \o CRLF,
       \* 7: no version
       <<"G", "E", "T", " ">> \o Api \o CRLF \o CRLF,
       \* 8: two empty lines first
       CRLF \o CRLF \o RequestLine(Api) \o CRLF \o CRLF,
       \* 9: a header longer than the initial buffer, then body bytes
       RequestLine(Api \o <<"/", "x">>) \o CRLF \o <<"H", ":", " ">> \o Filler
           \o CRLF \o CRLF \o <<"x", "y">>,
       \* 10: two empty lines, then more than the initial buffer holds
       CRLF \o CRLF \o Filler \o <<"z">>,
       \* 11: nothing
       <<>>,
       \* 12: request line ended by a bare LF, body bytes
       RequestLine(Api \o <<"/", "x">>) \o <<"\n">> \o <<"H", ":", " ", "v">>
           \o CRLF \o CRLF \o <<"b">> >>

ClientStream == ClientStreams[stream_id]

\* The -r arguments the proxy may be started with.
HandlerRouteArgs ==
    { <<>>,
      << <<"/", "a", "p", "i", "=", "A">> >>,
      << <<"/", "a", "p", "i", "=", "A">>,
         <<"/", "a", "p", "i", "/", "u", "s", "e", "r", "s", "=", "B">> >>,
      << <<"a", "p", "i", "=", "A">> >> }

\* What the backend answers, byte by byte, once connected.
BackendReply == <<"O", "K">>

\* Faulty variant of Response502: the body is missing.
MutResponse502NoBody ==
    <<"H", "T", "T", "P", "/", "1", ".", "1", " ", "5", "0", "2", " ", "B",
      "a", "d", " ", "G", "a", "t", "e", "w", "a", "y", "\r", "\n", "C", "o",
      "n", "t", "e", "n", "t", "-", "L", "e", "n", "g", "t", "h", ":", " ",
      "1", "5", "\r", "\n", "\r", "\n">>

\* Line 273: the response written when the connect fails.
Response502 ==
    <<"H", "T", "T", "P", "/", "1", ".", "1", " ", "5", "0", "2", " ", "B",
      "a", "d", " ", "G", "a", "t", "e", "w", "a", "y", "\r", "\n", "C", "o",
      "n", "t", "e", "n", "t", "-", "L", "e", "n", "g", "t", "h", ":", " ",
      "1", "5", "\r", "\n", "\r", "\n", "B", "a", "d", " ", "G", "a", "t",
      "e", "w", "a", "y", "\r", "\n">>

\* The sizes a read can return when m bytes could be returned.
ReadSizes(m) ==
    {m} \cup (IF short_reads < MaxShortReads
              THEN {n \in 1..(m - 1) : n <= MaxShortRead}
              ELSE {})

\* How many bytes a failing write_all of len bytes may have delivered.
PartialWrites(len) == {k \in 0..(len - 1) : k <= MaxPartialWrite}

Init ==
    /\ \E route_args \in HandlerRouteArgs, rewrite \in BOOLEAN :
          config = RouteConfigNew(DefaultBackend, route_args, rewrite)
    /\ call = NoValue
    /\ ret = NoValue
    /\ pc = "main"
    /\ IdleHandler

\* Lines 227-232: a client connects, the task is spawned and enters
\* parse_http_request (lines 90-91).
Accept ==
    /\ pc = "accept"
    /\ \E sid \in 1..Len(ClientStreams) : stream_id' = sid
    /\ buffer' = NewBuffer
    /\ total_read' = 0
    /\ pc' = "read"
    /\ UNCHANGED <<tasks, config, call, ret, client_pos, short_reads, path,
                   request_data, backend_addr, matched_prefix,
                   final_request_data, backend_stream, backend_received,
                   client_received, write_result, log>>

ParseFailed == "Failed to parse request"
ConnectFailed == "Failed to connect to backend"
ForwardFailed == "Failed to forward request to backend"

\* Line 95 with the rest of the loop body (96-134), and lines 232-238 when
\* parse_http_request returns.  The read returns 0 at end of stream or into
\* an empty slice, otherwise between 1 and what is there and fits.
Read ==
    /\ pc = "read"
    /\ LET avail == Len(ClientStream) - client_pos
           room == buffer.len - total_read
           m == MinNat(avail, room)
       IN  IF m = 0
           THEN \* n == 0: Err("Connection closed before ... headers")
                /\ pc' = "closed"
                /\ log' = Append(log, ParseFailed)
                /\ buffer' = NoValue
                /\ total_read' = 0
                /\ short_reads' = 0
                /\ UNCHANGED <<client_pos, path, request_data>>
           ELSE \E n \in ReadSizes(m) :
                LET buf == BufferWrite(buffer, total_read,
                                       SubSeq(ClientStream, client_pos + 1, client_pos + n))
                    r == AfterRead(buf, total_read + n)
                IN  /\ client_pos' = client_pos + n
                    /\ IF r.kind = "ok"
                       THEN /\ pc' = "headers_read"
                            /\ path' = r.path
                            /\ request_data' = r.request_data
                            /\ buffer' = NoValue
                            /\ total_read' = 0
                            /\ short_reads' = IF n < m THEN short_reads + 1 ELSE short_reads
                            /\ log' = log
                       ELSE IF r.kind = "err"
                       THEN /\ pc' = "closed"
                            /\ log' = Append(log, ParseFailed)
                            /\ buffer' = NoValue
                            /\ total_read' = 0
                            /\ short_reads' = 0
                            /\ UNCHANGED <<path, request_data>>
                       ELSE /\ pc' = "read"
                            /\ buffer' = r.buffer
                            /\ total_read' = total_read + n
                            /\ short_reads' = IF n < m THEN short_reads + 1 ELSE short_reads
                            /\ UNCHANGED <<path, request_data, log>>
    /\ UNCHANGED <<tasks, config, call, ret, stream_id, backend_addr, matched_prefix,
                   final_request_data, backend_stream, backend_received,
                   client_received, write_result>>

\* Line 95: the read itself fails (`?`), lines 234-237.
ReadFails ==
    /\ pc = "read"
    /\ pc' = "closed"
    /\ log' = Append(log, ParseFailed)
    /\ buffer' = NoValue
    /\ total_read' = 0
    /\ short_reads' = 0
    /\ UNCHANGED <<tasks, config, call, ret, stream_id, client_pos, path,
                   request_data, backend_addr, matched_prefix,
                   final_request_data, backend_stream, backend_received,
                   client_received, write_result>>

\* Line 241.  The reading phase is over: its short reads are forgotten.
Route ==
    /\ pc = "headers_read"
    /\ \E ord \in Orders(DOMAIN config.routes) :
          LET r == get_backend_and_prefix(config, path, ord)
          IN  /\ backend_addr' = r[1]
              /\ matched_prefix' = r[2]
    /\ pc' = "routed"
    /\ short_reads' = 0
    /\ UNCHANGED <<tasks, config, call, ret, stream_id, client_pos, buffer,
                   total_read, path, request_data, final_request_data,
                   backend_stream, backend_received, client_received,
                   write_result, log>>

\* Faulty variant of FinalRequestData: config.rewrite_paths is not consulted.
MutRewriteRegardless(rewrite_paths, data, p, prefix) ==
    rewrite_request_path(data, p, prefix)

\* Lines 244-264: final_request_data.
FinalRequestData(rewrite_paths, data, p, prefix) ==
    IF rewrite_paths THEN rewrite_request_path(data, p, prefix) ELSE data

\* Lines 244-264.
Rewrite ==
    /\ pc = "routed"
    /\ final_request_data' =
           FinalRequestData(config.rewrite_paths, request_data, path, matched_prefix)
    /\ pc' = "connecting"
    /\ UNCHANGED <<tasks, config, call, ret, stream_id, client_pos, short_reads,
                   buffer, total_read, path, request_data, backend_addr,
                   matched_prefix, backend_stream, backend_received,
                   client_received, write_result, log>>

\* Lines 267-268: TcpStream::connect(backend_addr) succeeds.
ConnectOk ==
    /\ pc = "connecting"
    /\ backend_stream' = backend_addr
    /\ pc' = "connected"
    /\ UNCHANGED <<tasks, config, call, ret, stream_id, client_pos, short_reads,
                   buffer, total_read, path, request_data, backend_addr,
                   matched_prefix, final_request_data, backend_received,
                   client_received, write_result, log>>

\* Lines 269-276: connect fails; the 502 is written to the client, the
\* result of the write is dropped, and the task returns.
ConnectFails ==
    /\ pc = "connecting"
    /\ log' = Append(log, ConnectFailed)
    /\ \/ /\ client_received' = client_received \o Response502
          /\ write_result' = "ok"
       \/ \E k \in PartialWrites(Len(Response502)) :
             /\ client_received' = client_received \o SubSeq(Response502, 1, k)
             /\ write_result' = "err"
    /\ pc' = "closed"
    /\ UNCHANGED <<tasks, config, call, ret, stream_id, client_pos, short_reads,
                   buffer, total_read, path, request_data, backend_addr,
                   matched_prefix, final_request_data, backend_stream,
                   backend_received>>

\* Faulty variant of Forward: a failed forward write is logged and the task
\* goes on to relay.
MutForwardFailureIgnored ==
    /\ pc = "connected"
    /\ \/ /\ backend_received' = backend_received \o final_request_data
          /\ write_result' = "ok"
          /\ log' = log
       \/ \E k \in PartialWrites(Len(final_request_data)) :
             /\ backend_received' = backend_received \o SubSeq(final_request_data, 1, k)
             /\ write_result' = "err"
             /\ log' = Append(log, ForwardFailed)
    /\ pc' = "relaying"
    /\ UNCHANGED <<tasks, config, call, ret, stream_id, client_pos, short_reads,
                   buffer, total_read, path, request_data, backend_addr,
                   matched_prefix, final_request_data, backend_stream,
                   client_received>>

\* Faulty variant of Forward: a failed forward write also answers the client
\* with the 502 response.
MutForwardSends502 ==
    /\ pc = "connected"
    /\ \/ /\ backend_received' = backend_received \o final_request_data
          /\ write_result' = "ok"
          /\ pc' = "relaying"
          /\ log' = log
          /\ client_received' = client_received
       \/ \E k \in PartialWrites(Len(final_request_data)) :
             /\ backend_received' = backend_received \o SubSeq(final_request_data, 1, k)
             /\ write_result' = "err"
             /\ pc' = "closed"
             /\ log' = Append(log, ForwardFailed)
             /\ client_received' = client_received \o Response502
    /\ UNCHANGED <<tasks, config, call, ret, stream_id, client_pos, short_reads,
                   buffer, total_read, path, request_data, backend_addr,
                   matched_prefix, final_request_data, backend_stream>>

\* Lines 280-283: write_all(&final_request_data) to the backend.
Forward ==
    /\ pc = "connected"
    /\ \/ /\ backend_received' = backend_received \o final_request_data
          /\ write_result' = "ok"
          /\ pc' = "relaying"
          /\ log' = log
       \/ \E k \in PartialWrites(Len(final_request_data)) :
             /\ backend_received' = backend_received \o SubSeq(final_request_data, 1, k)
             /\ write_result' = "err"
             /\ pc' = "closed"
             /\ log' = Append(log, ForwardFailed)
    /\ UNCHANGED <<tasks, config, call, ret, stream_id, client_pos, short_reads,
                   buffer, total_read, path, request_data, backend_addr,
                   matched_prefix, final_request_data, backend_stream,
                   client_received>>

\* Faulty variant of RelayToBackend: a relayed chunk that is a complete
\* request is routed again, and the task switches to the backend it
\* resolves to.
MutRelayReroutes ==
    /\ pc = "relaying"
    /\ client_pos < Len(ClientStream)
    /\ \E n \in ReadSizes(Len(ClientStream) - client_pos) :
          LET chunk == SubSeq(ClientStream, client_pos + 1, client_pos + n)
              req == httparse_parse(chunk)
          IN  /\ backend_received' = backend_received \o chunk
              /\ client_pos' = client_pos + n
              /\ short_reads' = IF n < Len(ClientStream) - client_pos
                                THEN short_reads + 1 ELSE short_reads
              /\ IF req.status = "Complete"
                 THEN \E ord \in Orders(DOMAIN config.routes) :
                         backend_stream' = get_backend_and_prefix(config, req.path, ord)[1]
                 ELSE backend_stream' = backend_stream
    /\ UNCHANGED <<tasks, config, call, ret, pc, stream_id, buffer, total_read, path,
                   request_data, backend_addr, matched_prefix,
                   final_request_data, client_received, write_result, log>>

\* Line 286, copy_bidirectional: client bytes are read and written to the
\* backend in the order read.
RelayToBackend ==
    /\ pc = "relaying"
    /\ client_pos < Len(ClientStream)
    /\ \E n \in ReadSizes(Len(ClientStream) - client_pos) :
          /\ backend_received' = backend_received
                 \o SubSeq(ClientStream, client_pos + 1, client_pos + n)
          /\ client_pos' = client_pos + n
          /\ short_reads' = IF n < Len(ClientStream) - client_pos
                            THEN short_reads + 1 ELSE short_reads
    /\ UNCHANGED <<tasks, config, call, ret, pc, stream_id, buffer, total_read, path,
                   request_data, backend_addr, matched_prefix,
                   final_request_data, backend_stream, client_received,
                   write_result, log>>

\* Line 286, copy_bidirectional: backend bytes are written to the client.
RelayToClient ==
    /\ pc = "relaying"
    /\ Len(client_received) < Len(BackendReply)
    /\ client_received' = Append(client_received,
                                 BackendReply[Len(client_received) + 1])
    /\ UNCHANGED <<tasks, config, call, ret, pc, stream_id, client_pos, short_reads,
                   buffer, total_read, path, request_data, backend_addr,
                   matched_prefix, final_request_data, backend_stream,
                   backend_received, write_result, log>>

\* Lines 286-293: copy_bidirectional returns (both sides closed, or an
\* error) and the task ends.
RelayEnds ==
    /\ pc = "relaying"
    /\ pc' = "closed"
    /\ UNCHANGED <<tasks, config, call, ret, taskVars>>

Next ==
    \/ StartupFails
    \/ Startup
    \/ Accept
    \/ Read
    \/ ReadFails
    \/ Route
    \/ Rewrite
    \/ ConnectOk
    \/ ConnectFails
    \/ Forward
    \/ RelayToBackend
    \/ RelayToClient
    \/ RelayEnds

Spec == Init /\ [][Next]_vars

----------------------------------------------------------------------------
(* Claims about route resolution (checked under SpecResolve).              *)

\* The configured keys that are a literal prefix of p.
Matching(cfg, p) == {k \in DOMAIN cfg.routes : StartsWith(p, k)}

Resolved == config.ok /\ ret # NoValue

\* C1: when at least one configured key is a literal prefix of the path,
\* resolve returns the backend of the longest such key and that key as the
\* matched prefix.
C1_LongestPrefixWins ==
    (Resolved /\ Matching(config, call.path) # {}) =>
        \E k \in Matching(config, call.path) :
            /\ \A j \in Matching(config, call.path) : Len(j) <= Len(k)
            /\ ret = <<config.routes[k], k>>

C1_Witness ==
    /\ Resolved
    /\ call.path \notin DOMAIN config.routes
    /\ Cardinality(Matching(config, call.path)) >= 3
    /\ ret[2] = <<"/", "a", "/", "b">>

\* C2: a path equal to a configured key resolves to that key's backend with
\* the path itself as matched prefix, also when shorter keys prefix it.
C2_ExactMatch ==
    (Resolved /\ call.path \in DOMAIN config.routes) =>
        ret = <<config.routes[call.path], call.path>>

C2_Witness ==
    /\ Resolved
    /\ call.path \in DOMAIN config.routes
    /\ Cardinality(Matching(config, call.path)) >= 3
    /\ ret = <<config.routes[call.path], call.path>>

\* C3: resolve returns (default_backend, "") exactly when no configured key
\* is a prefix of the path; otherwise the matched prefix is a non-empty
\* configured key that is a prefix of the path.
C3_DefaultIffNoPrefix ==
    Resolved =>
        /\ (Matching(config, call.path) = {}) =>
               ret = <<config.default_backend, <<>>>>
        /\ (Matching(config, call.path) # {}) =>
               /\ ret[2] # <<>>
               /\ ret[2] \in Matching(config, call.path)
               /\ ret[1] = config.routes[ret[2]]

C3_Witness ==
    /\ Resolved
    /\ Cardinality(DOMAIN config.routes) >= 2
    /\ Matching(config, call.path) = {}
    /\ ret = <<DefaultBackend, <<>>>>

----------------------------------------------------------------------------
(* Inputs of the path-rewriter specification.                              *)

\* First lines with one, several or odd separators, a method or a path with
\* an invalid UTF-8 byte, every line terminator (or none), and a rest with
\* headers and body bytes.
RewriteData ==
    { lead \o m \o s1 \o p \o s2 \o HttpVersion \o t \o rest :
        lead \in {<<>>, <<" ">>, <<"\r", "\n">>},
        m \in {<<"G", "E", "T">>, <<"G", "xFF">>},
        s1 \in {<<" ">>, <<" ", " ">>, <<"\t">>},
        p \in {<<"/", "a">>, <<"/", "a", "/", "b">>, <<"/", "a", "b">>,
               <<"/", "b">>, <<"/", "a", "/", "xFF">>},
        s2 \in {<<" ">>, <<"\r">>, <<" ", "x", " ">>},
        t \in {<<"\r", "\n">>, <<"\n">>, <<>>},
        rest \in {<<>>, <<"H", ":", " ", " ", "v", "\r", "\n", "\r", "\n", "b", " ", "\t">>} }
    \cup {<<>>}

RewritePrefixes == {<<>>, <<"/">>, <<"/", "a">>, <<"/", "a", "/", "b">>}

RewriteInit ==
    /\ \E d \in RewriteData, pre \in RewritePrefixes :
          call = [request_data |-> d, prefix_to_strip |-> pre]
    /\ ret = NoValue
    /\ config = NoValue
    /\ pc = "main"
    /\ IdleHandler

\* One call of rewrite_request_path.  _original_path is unused by the code.
RewriteCall ==
    /\ ret = NoValue
    /\ ret' = rewrite_request_path(call.request_data, NoValue, call.prefix_to_strip)
    /\ UNCHANGED <<tasks, config, call, handlerVars>>

RewriteNext == RewriteCall

SpecRewrite == RewriteInit /\ [][RewriteNext]_vars

----------------------------------------------------------------------------
(* Claims about the path rewriter (checked under SpecRewrite).             *)

Rewritten == ret # NoValue

\* The input's first line, as bytes: up to the first "\r" or "\n".
RawFirstLine(data) ==
    LET e == FirstIn(data, {"\r", "\n"})
    IN  IF e = 0 THEN data ELSE SubSeq(data, 1, e - 1)

\* out differs from in at most inside the second token of in's first line.
OnlyPathTokenDiffers(in, out) ==
    LET spans == TokenSpans(RawFirstLine(in), 1, 0)
    IN  IF Len(spans) < 2 THEN out = in
        ELSE LET s == spans[2][1]
                 t == spans[2][2]
                 after == Len(in) - t
             IN  /\ Len(out) >= (s - 1) + after
                 /\ SubSeq(out, 1, s - 1) = SubSeq(in, 1, s - 1)
                 /\ SubSeq(out, Len(out) - after + 1, Len(out)) = DropFirst(in, t)

RequestLineParts(data) == split_whitespace(FirstLine(from_utf8_lossy(data)))

HasRequestLine(data) ==
    /\ data # <<>>
    /\ Len(RequestLineParts(data)) = 3
    /\ FirstIn(data, {"\r", "\n"}) # 0

\* The second whitespace-separated token of the first line of the bytes out.
OutputPath(out) == split_whitespace(FirstLine(out))[2]

\* C5: when the request-line path starts with the non-empty matched prefix,
\* the rewritten path is the suffix after the prefix, with "/" prepended
\* when that suffix is empty or does not start with "/", so it always
\* starts with "/"; stripping the empty prefix leaves the bytes identical.
C5_StrippingRule ==
    Rewritten =>
        /\ (call.prefix_to_strip = <<>>) => ret = call.request_data
        /\ ( /\ call.prefix_to_strip # <<>>
             /\ HasRequestLine(call.request_data)
             /\ StartsWith(RequestLineParts(call.request_data)[2], call.prefix_to_strip) )
           => LET suffix == DropFirst(RequestLineParts(call.request_data)[2],
                                      Len(call.prefix_to_strip))
                  expected == IF suffix = <<>> \/ Head(suffix) # "/"
                              THEN <<"/">> \o suffix ELSE suffix
              IN  /\ OutputPath(ret) = as_bytes(expected)
                  /\ Head(OutputPath(ret)) = "/"

C5_Witness ==
    /\ Rewritten
    /\ call.prefix_to_strip = <<"/", "a">>
    /\ HasRequestLine(call.request_data)
    /\ RequestLineParts(call.request_data)[2] = <<"/", "a">>
    /\ OutputPath(ret) = <<"/">>
    /\ ret # call.request_data

----------------------------------------------------------------------------
(* Claims about the connection task (checked under Spec).                  *)

\* A path with a prefix stripped, as the specification words it.
Stripped(p, prefix) ==
    LET suffix == DropFirst(p, Len(prefix))
    IN  IF suffix = <<>> \/ Head(suffix) # "/" THEN <<"/">> \o suffix ELSE suffix

\* The request target an HTTP parser reads in the bytes `data`.
TargetOf(data) == httparse_parse(SubSeq(data, 1, find_header_end(data))).path

\* C6: whenever rewriting is configured and resolve returned a non-empty
\* matched prefix for the parsed path, the request line handed to the
\* backend carries that path with the matched prefix stripped, for every
\* request the reader accepts.
C6_BackendGetsStrippedPath ==
    ( /\ final_request_data # NoValue
      /\ config.rewrite_paths
      /\ matched_prefix # <<>> )
    => TargetOf(final_request_data) = Stripped(path, matched_prefix)

\* C7: when rewriting is disabled or the matched prefix is empty, the bytes
\* delivered to the backend are at every moment a prefix of the bytes the
\* client sent, in order and unmodified: the initial buffer first, then
\* the relayed bytes.
C7_BackendGetsClientPrefix ==
    ( /\ stream_id # 0
      /\ ~config.rewrite_paths \/ matched_prefix = NoValue \/ matched_prefix = <<>> )
    => /\ StartsWith(ClientStream, backend_received)
       /\ Len(backend_received) <= client_pos
       /\ final_request_data # NoValue => final_request_data = request_data
       /\ pc = "relaying" =>
              /\ StartsWith(backend_received, request_data)
              /\ backend_received = SubSeq(ClientStream, 1, client_pos)

C7_Witness ==
    /\ pc = "relaying"
    /\ config.rewrite_paths
    /\ DOMAIN config.routes # {}
    /\ matched_prefix = <<>>
    /\ Len(request_data) < client_pos
    /\ client_pos = Len(ClientStream)
    /\ backend_received = ClientStream

\* The streams whose first header section is a complete, well-formed
\* request, the index of the last byte of that section, and its target.
HeaderEnd == [i \in DOMAIN ClientStreams |-> find_header_end(ClientStreams[i])]

ValidStreams ==
    {i \in DOMAIN ClientStreams :
        /\ HeaderEnd[i] # 0
        /\ httparse_parse(SubSeq(ClientStreams[i], 1, HeaderEnd[i])).status = "Complete"}

OneReadPath ==
    [i \in DOMAIN ClientStreams |->
        IF i \in ValidStreams
        THEN httparse_parse(SubSeq(ClientStreams[i], 1, HeaderEnd[i])).path
        ELSE NoValue]

\* C8: for a valid request split in any way into reads, parse_http_request
\* returns the path it returns when the request arrives in one read, and
\* it returns at the first read after which the bytes read contain
\* "\r\n\r\n": not before, and it is not still reading after.
C8_SplitIndependentPath ==
    (stream_id \in ValidStreams) =>
        /\ pc = "read" => client_pos < HeaderEnd[stream_id]
        /\ path # NoValue =>
              /\ path = OneReadPath[stream_id]
              /\ Len(request_data) >= HeaderEnd[stream_id]

C8_Witness ==
    /\ stream_id = 1
    /\ pc = "headers_read"
    /\ path = ApiUsers
    /\ short_reads = MaxShortReads
    /\ Len(request_data) = Len(ClientStream)

\* C9: the bytes parse_http_request returns are exactly the bytes read from
\* the client so far, in arrival order, whatever the reads and buffer
\* doublings; the bytes read past the terminator are part of them and are
\* forwarded to the backend as they are.
C9_RawBytesAreTheBytesRead ==
    /\ pc = "read" =>
          /\ total_read = client_pos
          /\ BufferPrefix(buffer, total_read) = SubSeq(ClientStream, 1, client_pos)
    /\ pc \in {"headers_read", "routed", "connecting", "connected"} =>
          request_data = SubSeq(ClientStream, 1, client_pos)
    /\ pc = "relaying" =>
          LET past == DropFirst(request_data, find_header_end(request_data))
          IN  /\ StartsWith(ClientStream, request_data)
              /\ StartsWith(backend_received, final_request_data)
              /\ SubSeq(final_request_data,
                        Len(final_request_data) - Len(past) + 1,
                        Len(final_request_data)) = past

C9_Witness ==
    /\ pc = "relaying"
    /\ stream_id = 9
    /\ config.rewrite_paths
    /\ matched_prefix = Api
    /\ Len(request_data) = Len(ClientStream)
    /\ Len(request_data) > InitialBufferLen

\* The 502 response, as the specification spells it.
Literal502 ==
    <<"H", "T", "T", "P", "/", "1", ".", "1", " ", "5", "0", "2", " ", "B",
      "a", "d", " ", "G", "a", "t", "e", "w", "a", "y", "\r", "\n">>
    \o <<"C", "o", "n", "t", "e", "n", "t", "-", "L", "e", "n", "g", "t", "h",
         ":", " ", "1", "5", "\r", "\n">>
    \o <<"\r", "\n">>
    \o <<"B", "a", "d", " ", "G", "a", "t", "e", "w", "a", "y", "\r", "\n">>

ConnectHasFailed == \E i \in DOMAIN log : log[i] = ConnectFailed

\* C10: when the connect to the resolved backend fails, the client is sent
\* the literal 502 response and nothing else, the connection is closed, no
\* byte of the request reaches any backend, and a failure of the write to
\* the client changes nothing else (it is not reported, nothing is retried).
C10_ConnectFailureSends502 ==
    ConnectHasFailed =>
        /\ pc = "closed"
        /\ log = <<ConnectFailed>>
        /\ backend_stream = NoValue
        /\ backend_received = <<>>
        /\ write_result = "ok" => client_received = Literal502
        /\ write_result = "err" =>
              /\ StartsWith(Literal502, client_received)
              /\ client_received # Literal502

C10_Witness ==
    /\ ConnectHasFailed
    /\ pc = "closed"
    /\ write_result = "ok"
    /\ client_received = Literal502
    /\ backend_addr = <<"A">>

HasFailedWith(line) == \E i \in DOMAIN log : log[i] = line

\* C11: the only bytes the proxy itself originates toward the client are the
\* 502 literal, written when the backend connect fails; in every other state
\* and after every other failure (read, parse, forward write, relay) the
\* bytes the client has received are bytes the backend sent.
C11_Only502OnConnectFailure ==
    /\ HasFailedWith(ConnectFailed) => StartsWith(Response502, client_received)
    /\ ~HasFailedWith(ConnectFailed) =>
          /\ StartsWith(BackendReply, client_received)
          /\ client_received # <<>> =>
                /\ backend_stream # NoValue
                /\ write_result = "ok"
                /\ pc \in {"relaying", "closed"}
    /\ (HasFailedWith(ParseFailed) \/ HasFailedWith(ForwardFailed)) =>
          client_received = <<>>

C11_Witness ==
    /\ pc = "closed"
    /\ log = <<ForwardFailed>>
    /\ backend_stream = <<"A">>
    /\ backend_received # <<>>
    /\ client_received = <<>>

\* Nothing past the Request Prefix Reader has happened: no byte to the
\* client, no route resolution, no rewrite, no backend connection.
NothingPastTheReader ==
    /\ client_received = <<>>
    /\ path = NoValue
    /\ request_data = NoValue
    /\ backend_addr = NoValue
    /\ matched_prefix = NoValue
    /\ final_request_data = NoValue
    /\ backend_stream = NoValue
    /\ backend_received = <<>>

\* C12: whenever the reader fails (end of stream before the terminator, a
\* malformed header region, a failed read), the handler sends no byte to
\* the client, resolves no route, opens no backend connection and closes;
\* a stream without a well-formed first header section never gets further
\* than the reader.
C12_ReaderFailureClosesSilently ==
    /\ HasFailedWith(ParseFailed) =>
          /\ pc = "closed"
          /\ log = <<ParseFailed>>
          /\ NothingPastTheReader
    /\ (stream_id \in DOMAIN ClientStreams \ ValidStreams) =>
          /\ pc \in {"read", "closed"}
          /\ NothingPastTheReader

C12_Witness ==
    /\ stream_id = 6
    /\ pc = "closed"
    /\ client_pos = Len(ClientStream)
    /\ client_pos > 0
    /\ log = <<ParseFailed>>
    /\ NothingPastTheReader

----------------------------------------------------------------------------
(* Claims about RouteConfig::new and startup (checked under SpecResolve).  *)

\* A route argument with exactly one '=' whose part before it starts with
\* '/', read off the argument's characters.
WellFormedRoute(arg) ==
    /\ Cardinality({i \in DOMAIN arg : arg[i] = "="}) = 1
    /\ arg # <<>>
    /\ arg[1] = "/"

PathPart(arg) == SubSeq(arg, 1, FirstIn(arg, {"="}) - 1)

BackendPart(arg) == DropFirst(arg, FirstIn(arg, {"="}))

\* C14: RouteConfig::new fails, and main returns before the listener is
\* bound (no table, no resolution, no accept), exactly when some route
\* argument has not exactly one '=' or a path part not starting with '/';
\* otherwise the table's keys are the arguments' path parts, each starting
\* with '/', and a repeated key maps to the backend of its last occurrence.
C14_NewFailsIffMalformed ==
    LET args == call.route_args
        good == \A i \in DOMAIN args : WellFormedRoute(args[i])
    IN  /\ config.ok <=> good
        /\ ~config.ok =>
              /\ pc \in {"main", "exited"}
              /\ ret = NoValue
              /\ "routes" \notin DOMAIN config
        /\ config.ok =>
              /\ pc # "exited"
              /\ DOMAIN config.routes = {PathPart(args[i]) : i \in DOMAIN args}
              /\ \A k \in DOMAIN config.routes :
                    /\ k[1] = "/"
                    /\ \E i \in DOMAIN args :
                          /\ PathPart(args[i]) = k
                          /\ \A j \in DOMAIN args : PathPart(args[j]) = k => j <= i
                          /\ config.routes[k] = BackendPart(args[i])

C14_Witness ==
    /\ pc = "exited"
    /\ ~config.ok
    /\ Len(call.route_args) >= 2
    /\ WellFormedRoute(call.route_args[1])
    /\ call.route_args[2] = <<"a", "=", "A">>

\* C16: the result of resolve does not depend on the iteration order of the
\* route map: every order of the keys yields the (backend, matched prefix)
\* that was returned, and no two distinct keys of equal length both prefix
\* the path.
C16_IterationOrderIrrelevant ==
    Resolved =>
        /\ \A ord \in Orders(DOMAIN config.routes) :
               get_backend_and_prefix(config, call.path, ord) = ret
        /\ \A j, k \in Matching(config, call.path) : Len(j) = Len(k) => j = k

C16_Witness ==
    /\ Resolved
    /\ Cardinality(DOMAIN config.routes) = 3
    /\ Cardinality(Matching(config, call.path)) = 2
    /\ call.path = <<"/", "a", "b", "c">>
    /\ ret = <<<<"D">>, <<"/", "a", "b">>>>

----------------------------------------------------------------------------
(* Claims about the order of the task's steps (checked under Spec).        *)

\* The positions that may follow a position of main and the task.
NextPc(p) ==
    CASE p = "main" -> {"accept", "exited"}
      [] p = "accept" -> {"read"}
      [] p = "read" -> {"read", "headers_read", "closed"}
      [] p = "headers_read" -> {"routed"}
      [] p = "routed" -> {"connecting"}
      [] p = "connecting" -> {"connected", "closed"}
      [] p = "connected" -> {"relaying", "closed"}
      [] p = "relaying" -> {"relaying", "closed"}
      [] OTHER -> {}

\* C15: a handler goes through Accepted, HeadersRead, Routed, [Rewritten],
\* BackendConnecting, BackendConnected, Relaying, Closed in this order: the
\* connect is attempted only after the headers are read and the route is
\* resolved, the initial bytes are written only after the connect
\* succeeded, the relay starts only after that write succeeded, each step
\* happens at most once, and a failure (a logged line) leads directly to
\* Closed, after which the task takes no step.
C15_HandlerOrder ==
    [][ /\ pc' \in NextPc(pc)
        /\ path' # path => (pc = "read" /\ path = NoValue)
        /\ backend_addr' # backend_addr =>
              (pc = "headers_read" /\ backend_addr = NoValue /\ path # NoValue)
        /\ final_request_data' # final_request_data =>
              (pc = "routed" /\ final_request_data = NoValue /\ backend_addr # NoValue)
        /\ backend_stream' # backend_stream =>
              /\ pc = "connecting"
              /\ backend_stream = NoValue
              /\ final_request_data # NoValue
              /\ backend_stream' = backend_addr
        /\ backend_received' # backend_received =>
              /\ backend_stream # NoValue
              /\ \/ pc = "connected" /\ backend_received = <<>>
                 \/ pc = "relaying" /\ StartsWith(backend_received, final_request_data)
        /\ pc' = "relaying" => write_result' = "ok"
        /\ log' # log => (Len(log) = 0 /\ Len(log') = 1 /\ pc' = "closed")
        /\ (pc' = "closed" /\ pc # "relaying") => log' # log
      ]_vars

C15_Witness ==
    /\ pc = "closed"
    /\ log = <<>>
    /\ stream_id = 1
    /\ config.rewrite_paths
    /\ backend_stream = <<"B">>
    /\ backend_received = final_request_data
    /\ final_request_data # request_data
    /\ client_received = BackendReply

\* C17: route resolution never returns a matched prefix whose removal from
\* the path leaves a non-empty suffix that does not start with "/" (a path
\* such as /apiv2 is not matched by the key /api), so the rewriter is never
\* invoked on such a (path, prefix) pair.
C17_NoMatchInsideSegment ==
    (matched_prefix # NoValue /\ matched_prefix # <<>>) =>
        LET suffix == DropFirst(path, Len(matched_prefix))
        IN  suffix = <<>> \/ Head(suffix) = "/"

\* C18: every read of parse_http_request is issued with at least one free
\* byte of buffer, after any reads and doublings, so a read of 0 bytes is
\* the end of the stream; total_read never exceeds the buffer length, also
\* between a read and the resize that follows it.
C18_ReadHasRoom ==
    /\ [](pc = "read" =>
             /\ total_read < buffer.len
             /\ Len(buffer.data) <= total_read)
    /\ [][(pc = "read" /\ pc' = "read") =>
             /\ total_read' <= buffer.len
             /\ buffer'.len \in {buffer.len, 2 * buffer.len}
             /\ buffer'.len = 2 * buffer.len <=> total_read' = buffer.len]_vars

C18_Witness ==
    /\ pc = "read"
    /\ stream_id = 9
    /\ total_read = InitialBufferLen
    /\ buffer.len = 2 * InitialBufferLen

\* The streams whose first header section the parser reports as Partial.
PartialStreams ==
    {i \in DOMAIN ClientStreams :
        /\ HeaderEnd[i] # 0
        /\ httparse_parse(SubSeq(ClientStreams[i], 1, HeaderEnd[i])).status = "Partial"}

\* C19: the region handed to the parser ends at the first terminator in the
\* buffer, so it is the same on every later iteration; once the parser has
\* reported it Partial, no further client bytes make parse_http_request
\* succeed: it keeps reading, with a growing buffer, and fails only when
\* the client's stream has ended (or a read fails).
C19_PartialNeverCompletes ==
    /\ [](stream_id \in PartialStreams =>
             /\ pc \in {"read", "closed"}
             /\ path = NoValue
             /\ (pc = "read" /\ client_pos >= HeaderEnd[stream_id]) =>
                    /\ find_header_end(BufferPrefix(buffer, total_read))
                           = HeaderEnd[stream_id]
                    /\ total_read < buffer.len
             /\ pc = "closed" => log = <<ParseFailed>>)
    /\ [][(stream_id \in PartialStreams /\ pc = "read" /\ pc' = "closed") =>
             (client_pos = Len(ClientStream) \/ ReadFails)]_vars

C19_Witness ==
    /\ stream_id = 10
    /\ pc = "read"
    /\ client_pos = Len(ClientStream)
    /\ buffer.len = 2 * InitialBufferLen
    /\ short_reads > 0

\* C20: the routing decision is made once per connection: at most one
\* backend connection is opened, to the backend resolved from the first
\* request, and every client byte read after the initial header read goes
\* to that backend as it is, without resolution and without rewriting.
C20_RoutedOnce ==
    /\ [][ /\ backend_addr # NoValue => backend_addr' = backend_addr
           /\ matched_prefix # NoValue => matched_prefix' = matched_prefix
           /\ backend_stream # NoValue => backend_stream' = backend_stream ]_vars
    /\ []((pc \in {"relaying", "closed"} /\ backend_stream # NoValue
              /\ write_result = "ok") =>
             /\ backend_stream = backend_addr
             /\ backend_received = final_request_data
                    \o SubSeq(ClientStream, Len(request_data) + 1, client_pos))

C20_Witness ==
    /\ pc = "relaying"
    /\ stream_id = 3
    /\ config.rewrite_paths
    /\ matched_prefix = Api
    /\ backend_stream = <<"A">>
    /\ Len(request_data) = HeaderEnd[3]
    /\ client_pos = Len(ClientStream)
    /\ backend_received = final_request_data
           \o RequestLine(<<"/", "x">>) \o CRLF \o CRLF

----------------------------------------------------------------------------
(* The accept loop with several connection tasks side by side (main.rs     *)
(* 226-294).  `pc` is main's position; each element of `tasks` is one      *)
(* spawned task with its own copy of the task's variables; `config` is the *)
(* shared Arc<RouteConfig>.  A task that takes no step is a stalled task.  *)

\* How many connections the listener accepts.
MaxConnections == 2

\* The streams the clients of these tasks send (ClientStreams).
TaskStreams == {2, 6, 7}

\* Line 230: the task spawned for a client sending stream sid, at the start
\* of parse_http_request (lines 90-91).
NewTask(sid) ==
    [pc |-> "read", stream_id |-> sid, client_pos |-> 0, buffer |-> NewBuffer,
     total_read |-> 0, path |-> NoValue, request_data |-> NoValue,
     backend_addr |-> NoValue, matched_prefix |-> NoValue,
     final_request_data |-> NoValue, backend_stream |-> NoValue,
     backend_received |-> <<>>, client_received |-> <<>>,
     write_result |-> NoValue, log |-> <<>>]

\* The sizes a task's read can return when m bytes could be returned: all
\* of them, or the bytes up to the end of the header section when the client
\* sent that first.
TaskReadSizes(t, m) ==
    {m} \cup {n \in 1..(m - 1) : t.client_pos + n = HeaderEnd[t.stream_id]}

\* Lines 95-134 and 232-238 on a task t: the tasks it may become.
TaskRead(t) ==
    LET stream == ClientStreams[t.stream_id]
        m == MinNat(Len(stream) - t.client_pos, t.buffer.len - t.total_read)
    IN  IF m = 0
        THEN {[t EXCEPT !.pc = "closed", !.log = Append(@, ParseFailed),
                        !.buffer = NoValue, !.total_read = 0]}
        ELSE {LET buf == BufferWrite(t.buffer, t.total_read,
                             SubSeq(stream, t.client_pos + 1, t.client_pos + n))
                  r == AfterRead(buf, t.total_read + n)
              IN  IF r.kind = "ok"
                  THEN [t EXCEPT !.pc = "headers_read", !.client_pos = @ + n,
                                 !.path = r.path,
                                 !.request_data = r.request_data,
                                 !.buffer = NoValue, !.total_read = 0]
                  ELSE IF r.kind = "err"
                  THEN [t EXCEPT !.pc = "closed", !.client_pos = @ + n,
                                 !.log = Append(@, ParseFailed),
                                 !.buffer = NoValue, !.total_read = 0]
                  ELSE [t EXCEPT !.client_pos = @ + n, !.buffer = r.buffer,
                                 !.total_read = @ + n]
              : n \in TaskReadSizes(t, m)}

\* Line 95 fails (`?`), lines 234-237.
TaskReadFails(t) ==
    {[t EXCEPT !.pc = "closed", !.log = Append(@, ParseFailed),
               !.buffer = NoValue, !.total_read = 0]}

\* Line 241.
TaskRoute(t) ==
    {LET r == get_backend_and_prefix(config, t.path, ord)
     IN  [t EXCEPT !.pc = "routed", !.backend_addr = r[1],
                   !.matched_prefix = r[2]]
     : ord \in Orders(DOMAIN config.routes)}

\* Lines 244-264.
TaskRewrite(t) ==
    {[t EXCEPT !.pc = "connecting",
               !.final_request_data =
                   FinalRequestData(config.rewrite_paths, t.request_data,
                                    t.path, t.matched_prefix)]}

\* Lines 267-268.
TaskConnectOk(t) ==
    {[t EXCEPT !.pc = "connected", !.backend_stream = t.backend_addr]}

\* Lines 269-276.
TaskConnectFails(t) ==
    {[t EXCEPT !.pc = "closed", !.log = Append(@, ConnectFailed),
               !.client_received = @ \o Response502, !.write_result = "ok"]}
    \cup
    {[t EXCEPT !.pc = "closed", !.log = Append(@, ConnectFailed),
               !.client_received = @ \o SubSeq(Response502, 1, k),
               !.write_result = "err"]
     : k \in PartialWrites(Len(Response502))}

\* Lines 280-283.
TaskForward(t) ==
    {[t EXCEPT !.pc = "relaying", !.write_result = "ok",
               !.backend_received = @ \o t.final_request_data]}
    \cup
    {[t EXCEPT !.pc = "closed", !.write_result = "err",
               !.log = Append(@, ForwardFailed),
               !.backend_received = @ \o SubSeq(t.final_request_data, 1, k)]
     : k \in PartialWrites(Len(t.final_request_data))}

\* Line 286: the client's remaining bytes go to the backend.
TaskRelayToBackend(t) ==
    LET stream == ClientStreams[t.stream_id]
    IN  IF t.client_pos < Len(stream)
        THEN {[t EXCEPT !.client_pos = Len(stream),
                        !.backend_received =
                            @ \o SubSeq(stream, t.client_pos + 1, Len(stream))]}
        ELSE {}

\* Line 286: the backend's next byte goes to the client.
TaskRelayToClient(t) ==
    IF Len(t.client_received) < Len(BackendReply)
    THEN {[t EXCEPT !.client_received =
                        Append(@, BackendReply[Len(t.client_received) + 1])]}
    ELSE {}

\* Lines 286-293.
TaskRelayEnds(t) == {[t EXCEPT !.pc = "closed"]}

TasksInit ==
    /\ \E route_args \in {<< <<"/", "u", "n", "=", "A">> >>,
                          << <<"a", "p", "i", "=", "A">> >>} :
          config = RouteConfigNew(DefaultBackend, route_args, TRUE)
    /\ call = NoValue
    /\ ret = NoValue
    /\ pc = "main"
    /\ IdleHandler

\* Task i, standing at position at, becomes one of the tasks in S; main
\* and the other tasks are left alone.  The tasks run while main does.
TaskStep(i, at, S) ==
    /\ pc = "accept"
    /\ tasks[i].pc = at
    /\ \E t \in S : tasks' = [tasks EXCEPT ![i] = t]
    /\ UNCHANGED <<config, call, ret, handlerVars>>

\* Faulty variant of TasksAccept: the handler is awaited instead of spawned,
\* so the next accept waits for the last connection to be closed.
MutAcceptAwaitsHandler ==
    /\ pc = "accept"
    /\ Len(tasks) < MaxConnections
    /\ \A i \in DOMAIN tasks : tasks[i].pc = "closed"
    /\ \E sid \in TaskStreams : tasks' = Append(tasks, NewTask(sid))
    /\ UNCHANGED <<config, call, ret, handlerVars>>

\* Lines 227-230: accept a connection and spawn its task; main goes back to
\* accept at once.
TasksAccept ==
    /\ pc = "accept"
    /\ Len(tasks) < MaxConnections
    /\ \E sid \in TaskStreams : tasks' = Append(tasks, NewTask(sid))
    /\ UNCHANGED <<config, call, ret, handlerVars>>

\* Line 227: accept fails (`?`) and main returns; the runtime goes down
\* with it and the tasks take no further step.
TasksAcceptFails ==
    /\ pc = "accept"
    /\ pc' = "exited"
    /\ UNCHANGED <<tasks, config, call, ret, taskVars>>

TasksRead == \E i \in DOMAIN tasks : TaskStep(i, "read", TaskRead(tasks[i]))

TasksReadFails ==
    \E i \in DOMAIN tasks : TaskStep(i, "read", TaskReadFails(tasks[i]))

TasksRoute ==
    \E i \in DOMAIN tasks : TaskStep(i, "headers_read", TaskRoute(tasks[i]))

TasksRewrite ==
    \E i \in DOMAIN tasks : TaskStep(i, "routed", TaskRewrite(tasks[i]))

TasksConnectOk ==
    \E i \in DOMAIN tasks : TaskStep(i, "connecting", TaskConnectOk(tasks[i]))

TasksConnectFails ==
    \E i \in DOMAIN tasks : TaskStep(i, "connecting", TaskConnectFails(tasks[i]))

TasksForward ==
    \E i \in DOMAIN tasks : TaskStep(i, "connected", TaskForward(tasks[i]))

TasksRelayToBackend ==
    \E i \in DOMAIN tasks : TaskStep(i, "relaying", TaskRelayToBackend(tasks[i]))

TasksRelayToClient ==
    \E i \in DOMAIN tasks : TaskStep(i, "relaying", TaskRelayToClient(tasks[i]))

TasksRelayEnds ==
    \E i \in DOMAIN tasks : TaskStep(i, "relaying", TaskRelayEnds(tasks[i]))

TasksNext ==
    \/ StartupFails
    \/ Startup
    \/ TasksAccept
    \/ TasksAcceptFails
    \/ TasksRead
    \/ TasksReadFails
    \/ TasksRoute
    \/ TasksRewrite
    \/ TasksConnectOk
    \/ TasksConnectFails
    \/ TasksForward
    \/ TasksRelayToBackend
    \/ TasksRelayToClient
    \/ TasksRelayEnds

SpecTasks == TasksInit /\ [][TasksNext]_vars

----------------------------------------------------------------------------
(* Claims about the tasks side by side (checked under SpecTasks).          *)

\* Some task has logged a failure.
SomeTaskFailed == \E i \in DOMAIN tasks : tasks[i].log # <<>>

\* C13: per-connection isolation under every interleaving of the tasks:
\* whatever the tasks' states (failed at any step, standing still on a
\* read, a connect or a write, relaying), main can accept the next
\* connection; a step of a task changes that task only, neither main nor
\* another task; main exits only by a step that changes no task; and
\* accepting a connection leaves the tasks before it as they are.
C13_Isolation ==
    /\ []((pc = "accept" /\ Len(tasks) < MaxConnections) => ENABLED TasksAccept)
    /\ [](SomeTaskFailed => pc \in {"accept", "exited"})
    /\ [][ /\ Len(tasks') >= Len(tasks)
           /\ \A i \in DOMAIN tasks :
                 tasks'[i] # tasks[i] =>
                     /\ pc' = pc
                     /\ pc = "accept"
                     /\ Len(tasks') = Len(tasks)
                     /\ \A j \in DOMAIN tasks : j # i => tasks'[j] = tasks[j]
           /\ pc' = "exited" => tasks' = tasks
         ]_vars

C13_Witness ==
    /\ pc = "accept"
    /\ Len(tasks) = 2
    /\ tasks[1].pc = "read"
    /\ tasks[1].client_pos = 0
    /\ tasks[2].pc = "closed"
    /\ tasks[2].log = <<ConnectFailed>>
    /\ tasks[2].client_received = Response502

====
